---- MODULE Spec2Model ----
(***************************************************************************)
(* Loop Route Candidate Generator of cycle-route-mapper.                   *)
(*                                                                         *)
(* Two variants of generateRoutes live in the repository:                  *)
(*   "new"  src/unnamed/part_004  (distance band, length-based overlap)    *)
(*   "old"  src/unnamed/part_003  (10 km floor, hash set, count overlap)   *)
(* One run of generateRoutes is modelled as a state machine whose program  *)
(* positions are the while test, the waypoint sampling loop, the fetch,    *)
(* the await of the provider and the validation of the received data.      *)
(*                                                                         *)
(* Coordinates are integers in units of 1e-5 degree, the precision of the  *)
(* provider's compact path encoding.  All modelled paths run along a       *)
(* meridian, where the haversine length of a segment is proportional to    *)
(* its latitude difference, so lengths are exact up to one common factor   *)
(* and every ratio of lengths is exact.                                    *)
(*                                                                         *)
(* Besides the run (Spec) the module holds one specification per part of   *)
(* the program that is followed on its own, each leaving the state of the  *)
(* others at rest:                                                         *)
(*   SamplerSpec  one call of generateRandomWaypoints, point by point      *)
(*   OverlapSpec  one call of calculateRouteOverlap on decoded paths       *)
(*   StorageSpec  saveRoute / deleteRoute / clearSavedRoutes on the store  *)
(*   HomeSpec     the Home screen's handleGenerateRoutes                   *)
(*   TwoRunSpec   two invocations of generateRoutes, awaits interleaved    *)
(*   ConcurrentSaveSpec  two saveRoute calls that overlap in time          *)
(*   RideSpec     the ride-tracking screen and its location subscription   *)
(***************************************************************************)
EXTENDS Integers, Sequences, FiniteSets, TLC

VARIABLES
  variant,          \* which source variant runs: "new" or "old"
  radiusKm,         \* argument radiusKm / radius
  numRoutes,        \* argument numRoutes / maxRoutes (the target count)
  minDistanceKm,    \* argument minDistanceKm (new variant)
  maxDistanceKm,    \* argument maxDistanceKm (new variant)
  provider,         \* the directions provider the run talks to
  pc,               \* program position of the run
  routes,           \* const routes: Route[]
  attempts,         \* let attempts
  uniqueRoutes,     \* const uniqueRoutes = new Set<string>() (old variant)
  numWaypoints,     \* sampler: number of waypoints asked for
  waypointAttempts, \* sampler: let waypointAttempts (new variant)
  waypointCount,    \* sampler: waypoints.length
  resp,             \* what the awaited fetch / json produced
  requests,         \* history: number of fetch calls issued
  acceptedAt,       \* history: attempt number at which routes[i] was pushed
  served,           \* history: polylines the "distinct" provider has served
  outstanding,      \* history: fetch calls issued and not yet settled
  \* one call of generateRandomWaypoints, point by point
  spc,              \* program position of the sampler call
  startLocation,    \* argument startLocation (the center)
  radius,           \* argument radius
  waypoints,        \* const waypoints: Location[]
  usedPoints,       \* const usedPoints = new Set<string>()
  point,            \* const point = generateRandomPoint(...), the last draw
  rng,              \* position of the random source in its stream
  draws,            \* history: number of generateRandomPoint calls
  \* one call of calculateRouteOverlap
  pathA,            \* points1, the decoded first argument
  pathB,            \* points2, the decoded second argument
  overlapRatio,     \* the returned quotient
  overlapCount,     \* hasPathOverlap's overlapCount over totalSegments
  \* the saved-routes store
  storageVariant,   \* which storage module is linked: "append" or "update"
  store,            \* the AsyncStorage item '@saved_routes', parsed
  lastCall,         \* history: the last storage call and how it ended
  \* the Home screen's handleGenerateRoutes
  hpc,              \* program position of the handler
  screen,           \* "focused", "blurred" (navigated away) or "unmounted"
  radiusText,       \* const [radius, setRadius] = useState('10')
  isGenerating,     \* const [isGenerating, setIsGenerating] = useState(false)
  toast,            \* text2 of the last Toast.show, "" when none was shown
  navigated,        \* params.routes of the last router.push
  generated,        \* history: what the awaited generateRoutes resolved with
  location,         \* const [location, setLocation] = useState(null)
  \* two invocations of generateRoutes whose awaits interleave
  runs,             \* per invocation: position, data in flight, return value
  locals,           \* per call frame: routes, attempts, uniqueRoutes
  solo,             \* history: the same invocation fed the same answers alone
  \* saveRoute calls that overlap in time
  callers,          \* per call: position, the route, the array it read
  \* the ride-tracking screen
  rideMounted,      \* the screen is mounted
  isRiding,         \* const [isRiding, setIsRiding] = useState(false)
  isPaused,         \* const [isPaused, setIsPaused] = useState(false)
  elapsedTime,      \* const [elapsedTime, setElapsedTime] = useState(0)
  averageSpeed,     \* const [averageSpeed, setAverageSpeed] = useState(0)
  locationWatcher,  \* const [locationWatcher, setLocationWatcher] = useState(null)
  subscriptions,    \* the subscriptions that exist, each with its callback's closure
  nextSubscription, \* history: number of subscriptions created so far
  handlers,         \* handleStartRide / handleResumeRide calls suspended at an await
  lastUpdate,       \* history: the divisor of the last location update
  savedRide         \* the averageSpeed of the ride that handleStopRide stored

genVars == <<variant, radiusKm, numRoutes, minDistanceKm, maxDistanceKm, provider,
             pc, routes, attempts, uniqueRoutes, numWaypoints, waypointAttempts,
             waypointCount, resp, requests, acceptedAt, served, outstanding>>

\* the run's state without what the sampler call shares with it
genRunVars == <<radiusKm, numRoutes, minDistanceKm, maxDistanceKm, provider,
                pc, routes, attempts, uniqueRoutes, waypointCount, resp, requests,
                acceptedAt, served, outstanding>>

samplerVars == <<spc, startLocation, radius, waypoints, usedPoints, point, rng, draws>>

overlapVars == <<pathA, pathB, overlapRatio, overlapCount>>

storageVars == <<storageVariant, store, lastCall>>

homeVars == <<hpc, screen, radiusText, isGenerating, toast, navigated, generated,
              location>>

twoVars == <<runs, locals, solo>>

callerVars == <<callers>>

rideVars == <<rideMounted, isRiding, isPaused, elapsedTime, averageSpeed,
              locationWatcher, subscriptions, nextSubscription, handlers,
              lastUpdate, savedRide>>

\* the parts followed in specifications of their own further below
restVars == <<twoVars, callerVars, rideVars>>

\* everything that is not state of a generateRoutes run
nonGenVars == <<samplerVars, overlapVars, storageVars, homeVars, restVars>>

\* everything that is not state of a sampler call
nonSamplerVars == <<genRunVars, overlapVars, storageVars, homeVars, restVars>>

vars == <<genVars, samplerVars, overlapVars, storageVars, homeVars, restVars>>

inputs == <<variant, radiusKm, numRoutes, minDistanceKm, maxDistanceKm, provider>>

-----------------------------------------------------------------------------
(* Bounds of the model *)

\* seconds the ride timer is followed for
MaxElapsed == 2
\* watchPositionAsync subscriptions created on one mounted screen
MaxSubscriptions == 2
\* handleStartRide / handleResumeRide calls suspended at the same time
MaxHandlers == 1

\* maxAttempts of the new variant (100 in the source), scaled down
MaxAttemptsNew == 3
\* maxAttempts of the old variant (50 in the source), scaled down
MaxAttemptsOld == 2
\* largest target count tried
MaxTarget == 2
\* most points one sampler call is followed through
MaxDraws == 41
\* most points of a path handed to calculateRouteOverlap
MaxPathLen == 3
\* most records the saved-routes store is followed to
MaxSaved == 3
\* most routes a generation run hands to the Home screen
MaxGenerated == 2

-----------------------------------------------------------------------------
(* Program constants *)

NumWaypointsNew == 3
WaypointAttemptFactor == 5
NumWaypointsOldMin == 8
NumWaypointsOldSpan == 5
MinDistanceOldKm == 10
DefaultMinDistanceKm == 10
DefaultMaxDistanceKm == 50
\* 0.0001 degree in units of 1e-5 degree
Threshold == 10

Variants == {"new", "old"}

maxAttempts(v) == IF v = "new" THEN MaxAttemptsNew ELSE MaxAttemptsOld

-----------------------------------------------------------------------------
(* Numbers: distances are whole kilometres or NaN *)

NaN == 1000000

NumLt(a, b) == a # NaN /\ b # NaN /\ a < b
NumGt(a, b) == a # NaN /\ b # NaN /\ a > b

Abs(x) == IF x < 0 THEN -x ELSE x
Max(a, b) == IF a >= b THEN a ELSE b

-----------------------------------------------------------------------------
(* Polylines and their decoding *)

\* route.overview_polyline is absent / overview_polyline.points is absent
NoOverview == "<no overview_polyline>"
NoPoints == "<undefined>"

\* encoded polylines: the empty string, a one-point path, and real paths
Polylines == {"", "P", "A", "B", "C", "D"}

PolyValues == Polylines \cup {NoPoints, NoOverview}

\* polyline.decode of an encoded string
Decode(p) ==
  CASE p = ""  -> << >>
    [] p = "P" -> << <<0, 0>> >>
    [] p = "A" -> << <<0, 0>>, <<100, 0>> >>
    [] p = "B" -> << <<5, 0>>, <<100, 0>>, <<130, 0>> >>
    [] p = "C" -> << <<0, 50>>, <<100, 50>>, <<100, 50>> >>
    [] p = "D" -> << <<0, 0>>, <<100, 0>>, <<300, 0>> >>

\* polyline.decode reads str.length: it throws on undefined
DecodeThrows(p) == p \notin Polylines

-----------------------------------------------------------------------------
(* Similarity / overlap filter *)

\* calculateSegmentLength: haversine length of a meridian segment, in units
\* of R * pi / 180 * 1e-5 km
calculateSegmentLength(start, end) == Abs(end[1] - start[1])

RECURSIVE LengthFrom(_, _)
LengthFrom(points, i) ==
  IF i > Len(points) - 1 THEN 0
  ELSE calculateSegmentLength(points[i], points[i + 1]) + LengthFrom(points, i + 1)

calculatePolylineLength(points) == LengthFrom(points, 1)

\* the four-way tolerance test shared by both overlap functions: start
\* against start and end against end
SegmentsCloseMutEitherDirection(s1, e1, s2, e2) ==
  \/ /\ Abs(s1[1] - s2[1]) < Threshold
     /\ Abs(s1[2] - s2[2]) < Threshold
     /\ Abs(e1[1] - e2[1]) < Threshold
     /\ Abs(e1[2] - e2[2]) < Threshold
  \/ /\ Abs(s1[1] - e2[1]) < Threshold
     /\ Abs(s1[2] - e2[2]) < Threshold
     /\ Abs(e1[1] - s2[1]) < Threshold
     /\ Abs(e1[2] - s2[2]) < Threshold
SegmentsClose(s1, e1, s2, e2) ==
  /\ Abs(s1[1] - s2[1]) < Threshold
  /\ Abs(s1[2] - s2[2]) < Threshold
  /\ Abs(e1[1] - e2[1]) < Threshold
  /\ Abs(e1[2] - e2[2]) < Threshold

\* inner loop: does segment i of points1 match some segment of points2
MatchesSome(points1, i, points2) ==
  \E j \in 1..(Len(points2) - 1) :
    SegmentsClose(points1[i], points1[i + 1], points2[j], points2[j + 1])

RECURSIVE OverlapLengthFrom(_, _, _)
OverlapLengthFrom(points1, points2, i) ==
  IF i > Len(points1) - 1 THEN 0
  ELSE (IF MatchesSome(points1, i, points2)
          THEN calculateSegmentLength(points1[i], points1[i + 1]) ELSE 0)
       + OverlapLengthFrom(points1, points2, i + 1)

\* calculateRouteOverlap: the quotient overlapLength / max(length1, length2),
\* kept as <<numerator, denominator>>; 0 / 0 is NaN
RouteOverlapOfPoints(points1, points2) ==
  << OverlapLengthFrom(points1, points2, 1),
     Max(calculatePolylineLength(points1), calculatePolylineLength(points2)) >>

calculateRouteOverlap(polyline1, polyline2) ==
  RouteOverlapOfPoints(Decode(polyline1), Decode(polyline2))

IsNaNRatio(q) == q[1] = 0 /\ q[2] = 0

\* q > n / d for a quotient q (false for NaN)
RatioGt(q, n, d) == ~IsNaNRatio(q) /\ q[1] * d > n * q[2]

RECURSIVE OverlapCountFrom(_, _, _)
OverlapCountFrom(path1, path2, i) ==
  IF i > Len(path1) - 1 THEN 0
  ELSE (IF MatchesSome(path1, i, path2) THEN 1 ELSE 0)
       + OverlapCountFrom(path1, path2, i + 1)

\* hasPathOverlap's two counters when its loops end
PathOverlapCount(path1, path2) ==
  << OverlapCountFrom(path1, path2, 1), Max(Len(path1) - 1, 0) >>

\* hasPathOverlap: (overlapCount / totalSegments) > 0.4
hasPathOverlap(path1, path2) ==
  RatioGt(PathOverlapCount(path1, path2), 4, 10)

-----------------------------------------------------------------------------
(* What one awaited fetch + response.json() can produce *)

Kms == {5, 10, 50, 60, NaN}

Resp(k, st, sh, p, d) == [kind |-> k, status |-> st, shape |-> sh, poly |-> p, km |-> d]

\* no data in flight
NoResp == Resp("none", "", "", "", 0)

\* fetch rejects / the body is not JSON / a non-OK status / an OK answer whose
\* routes array is empty, whose route has no legs, whose legs have no steps /
\* an OK answer with every combination of polyline value and summed distance
Responses ==
  { Resp("throw", "", "", "", 0),
    Resp("badjson", "", "", "", 0),
    Resp("json", "ZERO_RESULTS", "noRoutes", "", 0),
    Resp("json", "OK", "noRoutes", "", 0),
    Resp("json", "OK", "noLegs", "A", 0),
    Resp("json", "OK", "noSteps", "A", 10),
    Resp("json", "OK", "noSteps", "C", 10) }
  \cup { Resp("json", "OK", "full", p, d) : p \in PolyValues, d \in Kms }

WellFormedOK(r) == r.kind = "json" /\ r.status = "OK" /\ r.shape = "full"

\* The providers a run may face: an arbitrary one, one that answers
\* ZERO_RESULTS to everything, one that returns the same polyline on every
\* call, and one whose answers are all usable, in band and new.
Providers ==
  { [mode |-> "any", poly |-> ""], [mode |-> "zero", poly |-> ""],
    [mode |-> "distinct", poly |-> ""] }
  \cup { [mode |-> "same", poly |-> p] : p \in PolyValues }

ProviderAnswers(prov, servedSoFar, lo, hi) ==
  CASE prov.mode = "any" -> Responses
    [] prov.mode = "zero" -> { r \in Responses : r.kind = "json" /\ r.status # "OK" }
    [] prov.mode = "same" -> { r \in Responses : WellFormedOK(r) /\ r.poly = prov.poly }
    [] prov.mode = "distinct" ->
         { r \in Responses :
             /\ WellFormedOK(r)
             /\ r.poly \in Polylines
             /\ r.km # NaN /\ lo <= r.km /\ r.km <= hi
             /\ \A i \in 1..Len(servedSoFar) :
                  /\ servedSoFar[i] # r.poly
                  /\ ~RatioGt(calculateRouteOverlap(servedSoFar[i], r.poly), 7, 10) }

-----------------------------------------------------------------------------
(* Validation of one attempt *)

\* mutants of the while test: one attempt too many / the target is ignored
LoopCondMutOffByOne(v, rs, target, att) == Len(rs) < target /\ att <= maxAttempts(v)
LoopCondMutNoTarget(v, rs, target, att) == att < maxAttempts(v)

\* the while test of generateRoutes
LoopCond(v, rs, target, att) == Len(rs) < target /\ att < maxAttempts(v)

\* mutant: numbering from the current length
RouteNameMutZeroBased(n) == "Route " \o ToString(n - 1)

\* `Route ${routes.length + 1}`
RouteName(n) == "Route " \o ToString(n)

\* mutant: the bounds are exclusive
OutOfBandMutExclusive(km, lo, hi) == ~NumGt(km, lo) \/ ~NumLt(km, hi)

\* distanceInKm < minDistanceKm || distanceInKm > maxDistanceKm
OutOfBand(km, lo, hi) == NumLt(km, lo) \/ NumGt(km, hi)

\* totalDistance < 10
TooShort(km) == NumLt(km, MinDistanceOldKm)

\* mutant: a laxer threshold
TooSimilarMutLax(q) == RatioGt(q, 9, 10)

\* overlap > 0.7
TooSimilar(q) == RatioGt(q, 7, 10)

\* routes.some(existingRoute => calculateRouteOverlap(existingRoute.points,
\* route.overview_polyline.points) > 0.7), left to right, stopping at the
\* first hit; reading .points of an absent overview_polyline and decoding an
\* undefined string throw
RECURSIVE SomeOverlapFrom(_, _, _)
SomeOverlapFrom(rs, i, cand) ==
  IF i > Len(rs) THEN "no"
  ELSE IF cand = NoOverview \/ DecodeThrows(rs[i].points) \/ DecodeThrows(cand)
    THEN "throw"
  ELSE IF TooSimilar(calculateRouteOverlap(rs[i].points, cand)) THEN "yes"
  ELSE SomeOverlapFrom(rs, i + 1, cand)

\* new variant: the body of the try block after the await, as the verdict
\* "caught" (an exception reached the catch), "rejected" (a continue) or
\* "accepted" (routes.push)
VerdictNew(r, rs, lo, hi) ==
  IF r.kind # "json" THEN "caught"
  ELSE IF r.status # "OK" THEN "rejected"
  ELSE IF r.shape \in {"noRoutes", "noLegs"} THEN "caught"
  ELSE IF OutOfBand(r.km, lo, hi) THEN "rejected"
  ELSE IF Len(rs) > 0 /\ SomeOverlapFrom(rs, 1, r.poly) = "throw" THEN "caught"
  ELSE IF Len(rs) > 0 /\ SomeOverlapFrom(rs, 1, r.poly) = "yes" THEN "rejected"
  ELSE IF r.shape = "noSteps" THEN "caught"
  ELSE IF r.poly = NoOverview THEN "caught"
  ELSE "accepted"

\* decodedPath.map(coord => `${coord[0].toFixed(6)},${coord[1].toFixed(6)}`)
\* .join('|'): the coordinates as six-decimal fixed-point numbers
routeHash(path) == [i \in 1..Len(path) |-> <<path[i][1] * 10, path[i][2] * 10>>]

\* old variant: the body of the try block
VerdictOld(r, rs, uniq) ==
  IF r.kind # "json" THEN "caught"
  ELSE IF r.status # "OK" \/ r.shape = "noRoutes" THEN "rejected"
  ELSE IF r.poly \in {NoOverview, NoPoints, ""} THEN "rejected"
  ELSE IF r.shape = "noLegs" THEN "caught"
  ELSE IF TooShort(r.km) THEN "rejected"
  ELSE IF routeHash(Decode(r.poly)) \in uniq THEN "rejected"
  ELSE IF \E i \in 1..Len(rs) : hasPathOverlap(Decode(r.poly), Decode(rs[i].points))
    THEN "rejected"
  ELSE "accepted"

Verdict(v, r, rs, uniq, lo, hi) ==
  IF v = "new" THEN VerdictNew(r, rs, lo, hi) ELSE VerdictOld(r, rs, uniq)

\* the Route object that is pushed
NewRoute(r, rs) ==
  [name |-> RouteName(Len(rs) + 1), points |-> r.poly, distance |-> r.km]

\* where the run goes after an attempt: the catch block only logs, and a
\* continue re-enters the while test
Continuation(verdict) == "loop"

-----------------------------------------------------------------------------
(* Waypoint sampling inside one attempt, by the number of waypoints held *)

\* number of distinct points generateRandomPoint can return: with radius 0 it
\* returns the center every time
DistinctPoints(r) ==
  IF r = 0 THEN 1 ELSE NumWaypointsOldMin + NumWaypointsOldSpan

\* the while test of generateRandomWaypoints
SamplerCond(v, count, wanted, tries) ==
  IF v = "new"
    THEN count < wanted /\ tries < wanted * WaypointAttemptFactor
    ELSE count < wanted

-----------------------------------------------------------------------------
(* generateRandomWaypoints and generateRandomPoint, point by point *)

\* Points are <<latitude, longitude>> in units of 1e-5 degree, the grain of
\* the sampler's toFixed(5) key, and a radius or distance is in the length of
\* one such unit of arc.  Centers lie on the equator and offsets are small
\* against the sphere, where the great-circle distance of two points is the
\* Euclidean one and the old generator's division by cos(latitude) is a
\* division by one.  Distances are compared through their squares.

MaxLat == 9000000
MaxLng == 18000000

\* the centers tried: one far from every edge of the coordinate range and one
\* within a radius of the +180 meridian
Centers == { <<0, 0>>, <<0, 17999800>> }
SamplerRadii == {0, 1000}

\* no draw made yet
NoDraw == << >>

\* the offsets from the center that the random source yields, in the order
\* of its stream
Candidates ==
  << <<0, 0>>, <<150, 150>>, <<990, 0>>, <<0, -250>>, <<50, 0>>, <<-600, 0>>,
     <<-150, 150>>, <<950, 50>>, <<0, 200>>, <<0, 900>>, <<-200, 0>>, <<0, 50>>,
     <<0, -300>>, <<150, -150>>, <<200, 0>>, <<300, 400>>, <<0, -200>>,
     <<-150, -150>>, <<-300, -400>>, <<0, 250>> >>

\* how far the random source steps in its stream between two draws: 0 makes
\* it return the same point again
Strides == {0, 1}

\* old: w = (radius * 0.3 / 111.32) * sqrt(u) with u in [0, 1);
\* new: distance = radius * (0.3 + Math.random() * 0.7)
InReach(v, r, o) ==
  LET d2 == o[1] * o[1] + o[2] * o[2]
  IN  IF v = "old"
        THEN d2 = 0 \/ 100 * d2 < 9 * r * r
        ELSE 9 * r * r <= 100 * d2 /\ d2 <= r * r /\ (d2 < r * r \/ r = 0)

RandomStream(v, r) == SelectSeq(Candidates, LAMBDA o : InReach(v, r, o))

Clamp(x, lo, hi) == IF x < lo THEN lo ELSE IF x > hi THEN hi ELSE x

\* generateRandomPoint: the old variant clamps both coordinates with
\* Math.max / Math.min; the new variant returns the destination point of the
\* spherical formula, whose longitude is lon1 + atan2(...) as it comes
generateRandomPoint(v, center, o) ==
  IF v = "old"
    THEN << Clamp(center[1] + o[1], -MaxLat, MaxLat),
            Clamp(center[2] + o[2], -MaxLng, MaxLng) >>
    ELSE << center[1] + o[1], center[2] + o[2] >>

\* calculateDistance, squared
calculateDistanceSquared(a, b) ==
  (a[1] - b[1]) * (a[1] - b[1]) + (a[2] - b[2]) * (a[2] - b[2])

\* the key under which a point is remembered in usedPoints: toFixed(5) of
\* both coordinates in the new variant, the plain numbers in the old one
pointKey(v, p) == ToString(p[1]) \o "," \o ToString(p[2])

\* new variant: [startLocation, ...waypoints].some(existing =>
\*   calculateDistance(point, existing) < radius * 0.1); the old variant has
\* no such test
tooClose(v, p, center, wps, r) ==
  /\ v = "new"
  /\ \E existing \in {center} \cup { wps[i] : i \in 1..Len(wps) } :
       100 * calculateDistanceSquared(p, existing) < r * r

\* the order of Math.atan2(dLng, dLat) on difference vectors <<dLat, dLng>>:
\* the result lies in (-pi, 0) for dLng < 0, is 0 for dLng = 0 /\ dLat >= 0,
\* lies in (0, pi) for dLng > 0 and is pi for dLng = 0 /\ dLat < 0
AngleClass(d) ==
  IF d[2] < 0 THEN 1
  ELSE IF d[2] = 0 /\ d[1] >= 0 THEN 2
  ELSE IF d[2] > 0 THEN 3
  ELSE 4

AngleLess(d, e) ==
  \/ AngleClass(d) < AngleClass(e)
  \/ /\ AngleClass(d) = AngleClass(e)
     /\ AngleClass(d) \in {1, 3}
     /\ d[1] * e[2] - d[2] * e[1] > 0

\* calculateAngle(center, a) - calculateAngle(center, b) < 0
calculateAngleLess(center, a, b) ==
  AngleLess(<<a[1] - center[1], a[2] - center[2]>>,
            <<b[1] - center[1], b[2] - center[2]>>)

\* insert x into a sorted sequence behind every element that does not come
\* after it
RECURSIVE InsertByAngle(_, _, _)
InsertByAngle(center, x, sorted) ==
  IF sorted = << >> THEN << x >>
  ELSE IF calculateAngleLess(center, x, Head(sorted))
         THEN << x >> \o sorted
         ELSE << Head(sorted) >> \o InsertByAngle(center, x, Tail(sorted))

RECURSIVE SortFrom(_, _, _)
SortFrom(center, wps, i) ==
  IF i = 0 THEN << >>
  ELSE InsertByAngle(center, wps[i], SortFrom(center, wps, i - 1))

\* waypoints.sort((a, b) => calculateAngle(start, a) - calculateAngle(start, b)),
\* a stable sort
SortByAngleMutUnsorted(center, wps) == wps
SortByAngle(center, wps) == SortFrom(center, wps, Len(wps))

\* no overlap call, no storage call and no Home handler is under way
NoRatio == << -1, -1 >>

OverlapIdle ==
  /\ pathA = << >>
  /\ pathB = << >>
  /\ overlapRatio = NoRatio
  /\ overlapCount = NoRatio

\* the item is absent (getItem yields null) / holds the JSON of an array
NoStore == [present |-> FALSE, routes |-> << >>]
Stored(rs) == [present |-> TRUE, routes |-> rs]
NoCall == [op |-> "none", id |-> "", outcome |-> ""]

StorageIdle ==
  /\ storageVariant = "append"
  /\ store = NoStore
  /\ lastCall = NoCall

\* no router.push / router.push with params.routes = the JSON of rs
NoLocation == "null"

NoPush == [pushed |-> FALSE, routes |-> << >>]
Pushed(rs) == [pushed |-> TRUE, routes |-> rs]

HomeIdle ==
  /\ hpc = "idle"
  /\ screen = "unmounted"
  /\ radiusText = "10"
  /\ isGenerating = FALSE
  /\ toast = ""
  /\ navigated = NoPush
  /\ generated = << >>
  /\ location = NoLocation

\* no second invocation, no overlapping save and no ride screen
TwoIdle ==
  /\ runs = << >>
  /\ locals = << >>
  /\ solo = << >>

CallersIdle == callers = << >>

NoSubscription == 0
NoUpdate == [happened |-> FALSE, divisor |-> 0, elapsed |-> 0]
NoRide == "none"

RideIdle ==
  /\ rideMounted = FALSE
  /\ isRiding = FALSE
  /\ isPaused = FALSE
  /\ elapsedTime = 0
  /\ averageSpeed = "zero"
  /\ locationWatcher = NoSubscription
  /\ subscriptions = {}
  /\ nextSubscription = 0
  /\ handlers = << >>
  /\ lastUpdate = NoUpdate
  /\ savedRide = NoRide

RestIdle ==
  /\ TwoIdle
  /\ CallersIdle
  /\ RideIdle

\* the sampler call is not running
SamplerIdle ==
  /\ spc = "idle"
  /\ startLocation = <<0, 0>>
  /\ radius = 0
  /\ waypoints = << >>
  /\ usedPoints = {}
  /\ point = NoDraw
  /\ rng = 1
  /\ draws = 0

\* where the run stands after calling fetch: "const response = await
\* fetch(url)" suspends it until the request settles
FetchPositionMutNoAwait == "loop"
FetchPosition == "await"

-----------------------------------------------------------------------------
(* The run *)

Bands == { <<DefaultMinDistanceKm, DefaultMaxDistanceKm>> }
Radii == {0, 5}

Init ==
  /\ variant \in Variants
  /\ radiusKm \in Radii
  /\ numRoutes \in 0..MaxTarget
  /\ \E b \in Bands : minDistanceKm = b[1] /\ maxDistanceKm = b[2]
  /\ provider \in Providers
  /\ pc = "loop"
  /\ routes = << >>
  /\ attempts = 0
  /\ uniqueRoutes = {}
  /\ numWaypoints = 0
  /\ waypointAttempts = 0
  /\ waypointCount = 0
  /\ resp = NoResp
  /\ requests = 0
  /\ acceptedAt = << >>
  /\ served = << >>
  /\ outstanding = 0
  /\ SamplerIdle
  /\ OverlapIdle
  /\ StorageIdle
  /\ HomeIdle
  /\ RestIdle

\* while (routes.length < numRoutes && attempts < maxAttempts) { attempts++;
\* ... generateRandomWaypoints(...) is entered
EnterAttempt ==
  /\ pc = "loop"
  /\ LoopCond(variant, routes, numRoutes, attempts)
  /\ attempts' = attempts + 1
  /\ \E n \in (IF variant = "new" THEN {NumWaypointsNew}
                ELSE NumWaypointsOldMin..(NumWaypointsOldMin + NumWaypointsOldSpan - 1)) :
       numWaypoints' = n
  /\ waypointAttempts' = 0
  /\ waypointCount' = 0
  /\ pc' = "sampling"
  /\ UNCHANGED <<inputs, routes, uniqueRoutes, resp, requests, acceptedAt, served,
                 outstanding, nonGenVars>>

\* the while test fails: return routes
Return ==
  /\ pc = "loop"
  /\ ~LoopCond(variant, routes, numRoutes, attempts)
  /\ pc' = "done"
  /\ UNCHANGED <<inputs, routes, attempts, uniqueRoutes, numWaypoints,
                 waypointAttempts, waypointCount, resp, requests, acceptedAt, served,
                 outstanding, nonGenVars>>

\* one iteration of the sampler's while loop: the drawn point is pushed when
\* its key is unused (and, new variant, it is not too close), else dropped
SampleDraw ==
  /\ pc = "sampling"
  /\ SamplerCond(variant, waypointCount, numWaypoints, waypointAttempts)
  /\ waypointAttempts' = IF variant = "new" THEN waypointAttempts + 1 ELSE waypointAttempts
  /\ \/ /\ waypointCount < DistinctPoints(radiusKm)
        /\ waypointCount' = waypointCount + 1
     \/ /\ waypointCount >= 1
        /\ waypointCount' = waypointCount
  /\ UNCHANGED <<inputs, pc, routes, attempts, uniqueRoutes, numWaypoints, resp,
                 requests, acceptedAt, served, outstanding, nonGenVars>>

\* the sampler returns its sorted waypoints, the URL is built and fetch is
\* called
SampleReturnAndFetch ==
  /\ pc = "sampling"
  /\ ~SamplerCond(variant, waypointCount, numWaypoints, waypointAttempts)
  /\ requests' = requests + 1
  /\ outstanding' = outstanding + 1
  /\ pc' = FetchPosition
  /\ UNCHANGED <<inputs, routes, attempts, uniqueRoutes, numWaypoints,
                 waypointAttempts, waypointCount, resp, acceptedAt, served, nonGenVars>>

\* the awaited fetch and response.json() settle
Receive ==
  /\ pc = "await"
  /\ \E r \in ProviderAnswers(provider, served, minDistanceKm, maxDistanceKm) :
       /\ resp' = r
       /\ served' = IF provider.mode = "distinct" THEN Append(served, r.poly) ELSE served
  /\ outstanding' = outstanding - 1
  /\ pc' = "validate"
  /\ UNCHANGED <<inputs, routes, attempts, uniqueRoutes, numWaypoints,
                 waypointAttempts, waypointCount, requests, acceptedAt, nonGenVars>>

\* the rest of the loop body
Validate ==
  /\ pc = "validate"
  /\ LET verdict == Verdict(variant, resp, routes, uniqueRoutes, minDistanceKm, maxDistanceKm)
     IN  /\ routes' = IF verdict = "accepted" THEN Append(routes, NewRoute(resp, routes))
                                              ELSE routes
         /\ acceptedAt' = IF verdict = "accepted" THEN Append(acceptedAt, attempts)
                                                  ELSE acceptedAt
         /\ uniqueRoutes' = IF verdict = "accepted" /\ variant = "old"
                              THEN uniqueRoutes \cup {routeHash(Decode(resp.poly))}
                              ELSE uniqueRoutes
         /\ pc' = Continuation(verdict)
  /\ resp' = NoResp
  /\ UNCHANGED <<inputs, attempts, numWaypoints, waypointAttempts, waypointCount,
                 requests, served, outstanding, nonGenVars>>

Next ==
  \/ EnterAttempt
  \/ Return
  \/ SampleDraw
  \/ SampleReturnAndFetch
  \/ Receive
  \/ Validate

Spec == Init /\ [][Next]_vars

\* the JavaScript event loop keeps running the function while it can step
FairSpec == Spec /\ WF_vars(Next)

TypeOK ==
  /\ pc \in {"loop", "sampling", "await", "validate", "done"}
  /\ attempts \in 0..maxAttempts(variant)
  /\ Len(routes) = Len(acceptedAt)

\* the provider always has an answer for an outstanding request
ProviderAnswersAlways ==
  pc = "await" => ProviderAnswers(provider, served, minDistanceKm, maxDistanceKm) # {}

-----------------------------------------------------------------------------
(* One call of generateRandomWaypoints *)

\* no generateRoutes run is under way
GenRunIdle ==
  /\ radiusKm = 0
  /\ numRoutes = 0
  /\ minDistanceKm = DefaultMinDistanceKm
  /\ maxDistanceKm = DefaultMaxDistanceKm
  /\ provider = [mode |-> "any", poly |-> ""]
  /\ pc = "done"
  /\ routes = << >>
  /\ attempts = 0
  /\ uniqueRoutes = {}
  /\ waypointCount = 0
  /\ resp = NoResp
  /\ requests = 0
  /\ acceptedAt = << >>
  /\ served = << >>
  /\ outstanding = 0

SamplerInit ==
  /\ variant \in Variants
  /\ startLocation \in Centers
  /\ radius \in SamplerRadii
  /\ numWaypoints \in (IF variant = "new" THEN {NumWaypointsNew}
                        ELSE NumWaypointsOldMin..(NumWaypointsOldMin + NumWaypointsOldSpan - 1))
  /\ waypointAttempts = 0
  /\ spc = "sampling"
  /\ waypoints = << >>
  /\ usedPoints = {}
  /\ point = NoDraw
  /\ rng \in 1..Len(RandomStream(variant, radius))
  /\ draws = 0
  /\ GenRunIdle
  /\ OverlapIdle
  /\ StorageIdle
  /\ HomeIdle
  /\ RestIdle

\* one iteration of the while loop: (new) waypointAttempts++, a point is
\* drawn, and pushed with its key when the key is unused and (new) the point
\* is not too close to the start or to a waypoint
SamplerDraw ==
  /\ spc = "sampling"
  /\ SamplerCond(variant, Len(waypoints), numWaypoints, waypointAttempts)
  /\ draws < MaxDraws
  /\ draws' = draws + 1
  /\ waypointAttempts' = IF variant = "new" THEN waypointAttempts + 1 ELSE waypointAttempts
  /\ \E stride \in Strides :
       LET stream == RandomStream(variant, radius)
           i == IF point = NoDraw THEN rng ELSE ((rng - 1 + stride) % Len(stream)) + 1
           p == generateRandomPoint(variant, startLocation, stream[i])
           push == /\ pointKey(variant, p) \notin usedPoints
                   /\ ~tooClose(variant, p, startLocation, waypoints, radius)
       IN  /\ rng' = i
           /\ point' = p
           /\ waypoints' = IF push THEN Append(waypoints, p) ELSE waypoints
           /\ usedPoints' = IF push THEN usedPoints \cup {pointKey(variant, p)} ELSE usedPoints
  /\ UNCHANGED <<variant, numWaypoints, spc, startLocation, radius, nonSamplerVars>>

\* the while test fails: the waypoints are sorted by angle and returned
SamplerReturn ==
  /\ spc = "sampling"
  /\ ~SamplerCond(variant, Len(waypoints), numWaypoints, waypointAttempts)
  /\ waypoints' = SortByAngle(startLocation, waypoints)
  /\ spc' = "returned"
  /\ UNCHANGED <<variant, numWaypoints, waypointAttempts, startLocation, radius,
                 usedPoints, point, rng, draws, nonSamplerVars>>

SamplerNext ==
  \/ SamplerDraw
  \/ SamplerReturn

SamplerSpec == SamplerInit /\ [][SamplerNext]_vars

-----------------------------------------------------------------------------
(* Two invocations of generateRoutes whose awaits interleave *)

Invocations == {1, 2}

\* the call frame an invocation works in: routes, attempts (and
\* uniqueRoutes) are declared inside the function body, so every invocation
\* has variables of its own
FrameMutModuleLevel(k) == 1
Frame(k) == k

\* the variables a call starts with
NewFrame == [routes |-> << >>, attempts |-> 0, uniqueRoutes |-> {}]

\* what a fetch of either invocation may settle with
TwoResponses ==
  { Resp("throw", "", "", "", 0),
    Resp("json", "ZERO_RESULTS", "noRoutes", "", 0),
    Resp("json", "OK", "full", "A", 5),
    Resp("json", "OK", "full", "A", 10),
    Resp("json", "OK", "full", "C", 10) }

\* a frame after the while test has let an attempt in: attempts++
FrameAfterEnter(v, f, target) ==
  IF LoopCond(v, f.routes, target, f.attempts)
    THEN [f EXCEPT !.attempts = @ + 1]
    ELSE f

\* a frame after the loop body has handled the received data
FrameAfterValidate(v, f, r, lo, hi) ==
  LET verdict == Verdict(v, r, f.routes, f.uniqueRoutes, lo, hi)
  IN  IF verdict = "accepted"
        THEN [f EXCEPT !.routes = Append(@, NewRoute(r, f.routes)),
                       !.uniqueRoutes = IF v = "old"
                                          THEN @ \cup {routeHash(Decode(r.poly))}
                                          ELSE @]
        ELSE f

nonTwoVars == <<genVars, samplerVars, overlapVars, storageVars, homeVars,
                callerVars, rideVars>>

TwoInit ==
  /\ variant \in Variants
  /\ numRoutes \in 1..MaxTarget
  /\ numWaypoints = 0
  /\ waypointAttempts = 0
  /\ radiusKm = 0
  /\ minDistanceKm = DefaultMinDistanceKm
  /\ maxDistanceKm = DefaultMaxDistanceKm
  /\ provider = [mode |-> "any", poly |-> ""]
  /\ pc = "done"
  /\ routes = << >>
  /\ attempts = 0
  /\ uniqueRoutes = {}
  /\ waypointCount = 0
  /\ resp = NoResp
  /\ requests = 0
  /\ acceptedAt = << >>
  /\ served = << >>
  /\ outstanding = 0
  /\ runs = [k \in Invocations |-> [pc |-> "loop", resp |-> NoResp, result |-> << >>]]
  /\ locals = [k \in Invocations |-> NewFrame]
  /\ solo = [k \in Invocations |-> NewFrame]
  /\ SamplerIdle
  /\ OverlapIdle
  /\ StorageIdle
  /\ HomeIdle
  /\ CallersIdle
  /\ RideIdle

\* invocation k passes the while test, counts the attempt, samples its
\* waypoints (within the call, without an await) and awaits its fetch
TwoEnterAttempt(k) ==
  /\ runs[k].pc = "loop"
  /\ LoopCond(variant, locals[Frame(k)].routes, numRoutes, locals[Frame(k)].attempts)
  /\ locals' = [locals EXCEPT ![Frame(k)] = FrameAfterEnter(variant, @, numRoutes)]
  /\ solo' = [solo EXCEPT ![k] = FrameAfterEnter(variant, @, numRoutes)]
  /\ runs' = [runs EXCEPT ![k].pc = "await"]
  /\ UNCHANGED nonTwoVars

\* invocation k fails the while test and returns its routes
TwoReturn(k) ==
  /\ runs[k].pc = "loop"
  /\ ~LoopCond(variant, locals[Frame(k)].routes, numRoutes, locals[Frame(k)].attempts)
  /\ runs' = [runs EXCEPT ![k].pc = "done", ![k].result = locals[Frame(k)].routes]
  /\ UNCHANGED <<locals, solo, nonTwoVars>>

\* the fetch of invocation k settles
TwoReceive(k) ==
  /\ runs[k].pc = "await"
  /\ \E r \in TwoResponses : runs' = [runs EXCEPT ![k].pc = "validate", ![k].resp = r]
  /\ UNCHANGED <<locals, solo, nonTwoVars>>

\* the rest of the loop body of invocation k; solo follows the same data as
\* a run that has the program to itself
TwoValidate(k) ==
  /\ runs[k].pc = "validate"
  /\ locals' = [locals EXCEPT ![Frame(k)] =
                  FrameAfterValidate(variant, @, runs[k].resp, minDistanceKm, maxDistanceKm)]
  /\ solo' = [solo EXCEPT ![k] =
                FrameAfterValidate(variant, @, runs[k].resp, minDistanceKm, maxDistanceKm)]
  /\ runs' = [runs EXCEPT ![k].pc = "loop", ![k].resp = NoResp]
  /\ UNCHANGED nonTwoVars

TwoNext ==
  \E k \in Invocations :
    \/ TwoEnterAttempt(k)
    \/ TwoReturn(k)
    \/ TwoReceive(k)
    \/ TwoValidate(k)

TwoRunSpec == TwoInit /\ [][TwoNext]_vars

-----------------------------------------------------------------------------
(* One call of calculateRouteOverlap *)

\* no generateRoutes run and no sampler call is under way
GenIdle ==
  /\ variant = "new"
  /\ numWaypoints = 0
  /\ waypointAttempts = 0
  /\ GenRunIdle

\* the paths tried: every sequence of up to MaxPathLen points on the
\* meridian, two of them closer than the threshold
PathPoints == { <<0, 0>>, <<5, 0>>, <<100, 0>>, <<130, 0>> }
Paths == UNION { [1..n -> PathPoints] : n \in 0..MaxPathLen }

OverlapInit ==
  /\ pathA \in Paths
  /\ pathB \in Paths
  /\ overlapRatio = NoRatio
  /\ overlapCount = NoRatio
  /\ GenIdle
  /\ SamplerIdle
  /\ StorageIdle
  /\ HomeIdle
  /\ RestIdle

\* the body of calculateRouteOverlap, and the loops of hasPathOverlap, on
\* the decoded paths
CallOverlap ==
  /\ overlapRatio = NoRatio
  /\ overlapRatio' = RouteOverlapOfPoints(pathA, pathB)
  /\ overlapCount' = PathOverlapCount(pathA, pathB)
  /\ UNCHANGED <<pathA, pathB, genVars, samplerVars, storageVars, homeVars, restVars>>

OverlapNext == CallOverlap

OverlapSpec == OverlapInit /\ [][OverlapNext]_vars

-----------------------------------------------------------------------------
(* The saved-routes store *)

\* Two storage modules are in the repository: src/utils/storage.ts, whose
\* saveRoute appends ("append"), and src/unnamed/part_002, whose saveRoute
\* replaces a record of the same id ("update").
StorageVariants == {"append", "update"}

\* the routes handed to saveRoute: an id (possibly empty) and a rating that
\* tells two versions of a route apart
SavedIds == {"", "a", "b"}
SavedRoutes == [id : SavedIds, rating : {1, 2}]

\* getSavedRoutes: the parsed item, [] when the item is absent or when
\* getItem / JSON.parse throws (the catch returns [])
getSavedRoutes(item, readFails) ==
  IF readFails \/ ~item.present THEN << >> ELSE item.routes

\* existingRoutes.findIndex(route => route.id === id), 0 for -1
FindIndex(existingRoutes, id) ==
  IF \E i \in 1..Len(existingRoutes) : existingRoutes[i].id = id
    THEN CHOOSE i \in 1..Len(existingRoutes) :
           /\ existingRoutes[i].id = id
           /\ \A k \in 1..(i - 1) : existingRoutes[k].id # id
    ELSE 0

\* saveRoute throws before touching the store: part_002 rejects a route
\* without id, storage.ts has no such test
SaveRejectsMutAcceptsEmptyId(v, route) == FALSE
SaveRejects(v, route) == v = "update" /\ route.id = ""

\* the array saveRoute writes back
SavedAfterSave(v, existingRoutes, route) ==
  IF v = "append"
    THEN Append(existingRoutes, route)
    ELSE LET routeIndex == FindIndex(existingRoutes, route.id)
         IN  IF routeIndex > 0
               THEN [existingRoutes EXCEPT ![routeIndex] = route]
               ELSE Append(existingRoutes, route)

\* the array deleteRoute writes back
SavedAfterDelete(existingRoutes, routeId) ==
  SelectSeq(existingRoutes, LAMBDA route : route.id # routeId)

Call(op, id, outcome) == [op |-> op, id |-> id, outcome |-> outcome]

StorageInit ==
  /\ storageVariant \in StorageVariants
  /\ store = NoStore
  /\ lastCall = NoCall
  /\ GenIdle
  /\ SamplerIdle
  /\ OverlapIdle
  /\ HomeIdle
  /\ RestIdle

\* await saveRoute(route): read, build the new array, setItem; a failing
\* setItem is logged and rethrown and leaves the item as it was
SaveRoute ==
  \E route \in SavedRoutes, readFails \in BOOLEAN, writeFails \in BOOLEAN :
    LET updatedRoutes ==
          SavedAfterSave(storageVariant, getSavedRoutes(store, readFails), route)
        throws == SaveRejects(storageVariant, route) \/ writeFails
    IN  /\ Len(updatedRoutes) <= MaxSaved
        /\ store' = IF throws THEN store ELSE Stored(updatedRoutes)
        /\ lastCall' = Call("save", route.id, IF throws THEN "throws" ELSE "ok")
        /\ UNCHANGED <<storageVariant, genVars, samplerVars, overlapVars, homeVars, restVars>>

\* await deleteRoute(routeId)
DeleteRoute ==
  \E routeId \in SavedIds, readFails \in BOOLEAN, writeFails \in BOOLEAN :
    LET updatedRoutes == SavedAfterDelete(getSavedRoutes(store, readFails), routeId)
    IN  /\ store' = IF writeFails THEN store ELSE Stored(updatedRoutes)
        /\ lastCall' = Call("delete", routeId, IF writeFails THEN "throws" ELSE "ok")
        /\ UNCHANGED <<storageVariant, genVars, samplerVars, overlapVars, homeVars, restVars>>

\* await clearSavedRoutes(): removeItem
ClearSavedRoutes ==
  \E writeFails \in BOOLEAN :
    /\ store' = IF writeFails THEN store ELSE NoStore
    /\ lastCall' = Call("clear", "", IF writeFails THEN "throws" ELSE "ok")
    /\ UNCHANGED <<storageVariant, genVars, samplerVars, overlapVars, homeVars, restVars>>

StorageNext ==
  \/ SaveRoute
  \/ DeleteRoute
  \/ ClearSavedRoutes

StorageSpec == StorageInit /\ [][StorageNext]_vars

-----------------------------------------------------------------------------
(* saveRoute calls that overlap in time: each awaits its read of the item
   and then its write, and the other call may run in between *)

Savers == {1, 2}

\* the routes the two calls save: different ids
SaverRoute(c) == [id |-> IF c = 1 THEN "a" ELSE "b", rating |-> 1]

nonCallerVars == <<storageVariant, lastCall, genVars, samplerVars, overlapVars,
                   homeVars, twoVars, rideVars>>

ConcurrentSaveInit ==
  /\ storageVariant \in StorageVariants
  /\ store \in {NoStore} \cup { Stored(<< r >>) : r \in SavedRoutes }
  /\ lastCall = NoCall
  /\ callers = [c \in Savers |->
                  [pc |-> "called", route |-> SaverRoute(c), existingRoutes |-> << >>,
                   readFailed |-> FALSE]]
  /\ GenIdle
  /\ SamplerIdle
  /\ OverlapIdle
  /\ HomeIdle
  /\ TwoIdle
  /\ RideIdle

\* const existingRoutes = await getSavedRoutes(), after the test of the id
SaveReads(c) ==
  /\ callers[c].pc = "called"
  /\ \E readFails \in BOOLEAN :
       callers' = [callers EXCEPT
                     ![c].pc = IF SaveRejects(storageVariant, callers[c].route)
                                 THEN "rejected" ELSE "read",
                     ![c].existingRoutes = getSavedRoutes(store, readFails),
                     ![c].readFailed = readFails]
  /\ UNCHANGED <<store, nonCallerVars>>

\* await AsyncStorage.setItem(key, JSON.stringify(updatedRoutes)) with the
\* array built from what this call read
SaveWrites(c) ==
  /\ callers[c].pc = "read"
  /\ \E writeFails \in BOOLEAN :
       /\ store' = IF writeFails THEN store
                    ELSE Stored(SavedAfterSave(storageVariant, callers[c].existingRoutes,
                                               callers[c].route))
       /\ callers' = [callers EXCEPT ![c].pc = IF writeFails THEN "rejected" ELSE "resolved"]
  /\ UNCHANGED nonCallerVars

ConcurrentSaveNext ==
  \E c \in Savers :
    \/ SaveReads(c)
    \/ SaveWrites(c)

ConcurrentSaveSpec == ConcurrentSaveInit /\ [][ConcurrentSaveNext]_vars

-----------------------------------------------------------------------------
(* The Home screen's handleGenerateRoutes *)

NoValidRoutesText == "No valid routes found. Try adjusting the radius."
InvalidRadiusText == "Please enter a valid radius"
NoLocationText == "Please select a start location on the map"
FailedText == "Failed to generate routes"

\* what the radius field may hold, and parseFloat of it: a leading number is
\* read, anything else gives NaN
RadiusTexts == {"10", "0", "abc", "5km"}
parseFloat(text) ==
  CASE text = "10" -> 10
    [] text = "0" -> 0
    [] text = "5km" -> 5
    [] OTHER -> NaN

\* isNaN(radiusNum) || radiusNum <= 0
InvalidRadius(radiusNum) == radiusNum = NaN \/ radiusNum <= 0

\* what the awaited generateRoutes can settle with: it has no throw outside
\* its own try / catch, so it resolves, with routes named in order whose
\* distance is a number or NaN
GenerationOutcomes ==
  UNION { { [kind |-> "resolved",
             routes |-> [i \in 1..n |->
                           [name |-> RouteName(i), points |-> "A", distance |-> km[i]]]] :
              km \in [1..n -> {10, NaN}] } :
          n \in 0..MaxGenerated }

\* JSON.stringify writes the number NaN as null and leaves strings alone
JsonNull == -1
JsonNumber(x) == IF x = NaN THEN JsonNull ELSE x
JsonStringify(rs) ==
  [i \in 1..Len(rs) |-> [rs[i] EXCEPT !.distance = JsonNumber(@)]]

HomeInit ==
  /\ hpc = "idle"
  /\ screen = "focused"
  /\ radiusText \in RadiusTexts
  /\ isGenerating = FALSE
  /\ toast = ""
  /\ navigated = NoPush
  /\ generated = << >>
  /\ location = NoLocation
  /\ GenIdle
  /\ SamplerIdle
  /\ OverlapIdle
  /\ StorageIdle
  /\ RestIdle

\* setLocation: the position obtained by the mount effect, or a press on
\* the map
SetLocation ==
  /\ screen = "focused"
  /\ location = NoLocation
  /\ location' = "set"
  /\ UNCHANGED <<hpc, screen, radiusText, isGenerating, toast, navigated, generated,
                 genVars, samplerVars, overlapVars, storageVars, restVars>>

\* onChangeText={setRadius}
ChangeRadius ==
  /\ screen = "focused"
  /\ \E text \in RadiusTexts \ {radiusText} : radiusText' = text
  /\ UNCHANGED <<hpc, screen, isGenerating, toast, navigated, generated, location,
                 genVars, samplerVars, overlapVars, storageVars, restVars>>

\* handleGenerateRoutes is called (its button is disabled while
\* isGenerating): the location and the radius are validated,
\* setIsGenerating(true), generateRoutes is called and awaited.
\* toast, navigated and generated are kept per call.
PressGenerate ==
  /\ screen = "focused"
  /\ hpc = "idle"
  /\ ~isGenerating
  /\ navigated' = NoPush
  /\ generated' = << >>
  /\ IF location = NoLocation
       THEN /\ toast' = NoLocationText
            /\ UNCHANGED <<hpc, isGenerating>>
     ELSE IF InvalidRadius(parseFloat(radiusText))
       THEN /\ toast' = InvalidRadiusText
            /\ UNCHANGED <<hpc, isGenerating>>
       ELSE /\ toast' = ""
            /\ isGenerating' = TRUE
            /\ hpc' = "awaiting"
  /\ UNCHANGED <<screen, radiusText, location, genVars, samplerVars, overlapVars, storageVars, restVars>>

\* the user moves to another screen, or the Home screen is unmounted
Leave ==
  /\ screen = "focused"
  /\ screen' \in {"blurred", "unmounted"}
  /\ UNCHANGED <<hpc, radiusText, isGenerating, toast, navigated, generated, location,
                 genVars, samplerVars, overlapVars, storageVars, restVars>>

\* the user comes back to the Home screen
ComeBack ==
  /\ screen = "blurred"
  /\ screen' = "focused"
  /\ UNCHANGED <<hpc, radiusText, isGenerating, toast, navigated, generated, location,
                 genVars, samplerVars, overlapVars, storageVars, restVars>>

\* finally { setIsGenerating(false) }: runs on every way out of the try
\* block; React drops the update of an unmounted component
IsGeneratingAfterSettleMutSkippedOnReturn(scr, g, out) ==
  IF scr = "unmounted" \/ Len(out.routes) = 0 THEN g ELSE FALSE
IsGeneratingAfterSettle(scr, g, out) ==
  IF scr = "unmounted" THEN g ELSE FALSE

\* the awaited call settles and the rest of the handler runs: the toast for
\* no routes, or router.push with the JSON of the routes; the catch block's
\* toast for a rejection; finally setIsGenerating(false), which React drops
\* for an unmounted component
Settle ==
  /\ hpc = "awaiting"
  /\ \E out \in GenerationOutcomes :
       /\ generated' = out.routes
       /\ IF out.kind # "resolved"
            THEN toast' = FailedText /\ UNCHANGED <<navigated, screen>>
            ELSE IF Len(out.routes) = 0
              THEN toast' = NoValidRoutesText /\ UNCHANGED <<navigated, screen>>
              ELSE /\ navigated' = Pushed(JsonStringify(out.routes))
                   /\ screen' = IF screen = "focused" THEN "blurred" ELSE screen
                   /\ UNCHANGED toast
       /\ isGenerating' = IsGeneratingAfterSettle(screen, isGenerating, out)
  /\ hpc' = "idle"
  /\ UNCHANGED <<radiusText, location, genVars, samplerVars, overlapVars, storageVars,
                 restVars>>

HomeNext ==
  \/ SetLocation
  \/ ChangeRadius
  \/ PressGenerate
  \/ Leave
  \/ ComeBack
  \/ Settle

HomeSpec == HomeInit /\ [][HomeNext]_vars

-----------------------------------------------------------------------------
(* C1: every run of generateRoutes terminates, after at most maxAttempts
   provider requests, returning the routes accepted so far. *)
C1_Terminates == <>(pc = "done" /\ requests <= maxAttempts(variant))

\* what does hold (C1 without the old sampler's endless loop): the new variant
\* always returns, and so does the old one when the sampler can produce enough
\* distinct points
C1_TerminatesUnlessSamplerStuck ==
  (variant = "new" \/ radiusKm > 0) => <>(pc = "done" /\ requests <= maxAttempts(variant))

\* the old sampler holding every point it can draw and still wanting more
C1_SamplerStuck ==
  /\ variant = "old"
  /\ pc = "sampling"
  /\ waypointCount = DistinctPoints(radiusKm)
  /\ waypointCount < numWaypoints

-----------------------------------------------------------------------------
(* C2: if the provider answers every request with a non-OK status, the run
   returns an empty list after exactly maxAttempts requests. *)
C2_AllNonOK_Original ==
  (provider.mode = "zero" /\ pc = "done")
    => (routes = << >> /\ requests = maxAttempts(variant))

\* C2 as amended: the same for a target count of at least 1 (a target of 0
\* returns at once, with no request issued)
C2_AllNonOK ==
  (provider.mode = "zero" /\ numRoutes >= 1 /\ pc = "done")
    => (routes = << >> /\ requests = maxAttempts(variant) /\ attempts = maxAttempts(variant))

C2_Witness ==
  /\ provider.mode = "zero" /\ numRoutes >= 1 /\ pc = "done"
  /\ requests = maxAttempts(variant)

-----------------------------------------------------------------------------
(* C3: the accepted list never holds more than targetCount routes and attempts
   never exceeds maxAttempts; the run is Done exactly when, at the while test,
   routes.length = targetCount or attempts = maxAttempts; no request is issued
   once the target count has been reached. *)
C3_Done == Len(routes) = numRoutes \/ attempts = maxAttempts(variant)

\* C3: the bounds, Done only under C3_Done, Done at once under C3_Done, and
\* no request once the target is reached
C3_LoopBounds ==
  /\ [](Len(routes) <= numRoutes /\ attempts <= maxAttempts(variant))
  /\ [](pc = "done" => C3_Done)
  /\ [][(pc = "loop" /\ C3_Done) => pc' = "done"]_vars
  /\ [][(pc = "loop" /\ ~C3_Done) => pc' # "done"]_vars
  /\ [][Len(routes) >= numRoutes => requests' = requests]_vars

C3_Witness ==
  /\ pc = "done" /\ numRoutes >= 1 /\ Len(routes) = numRoutes
  /\ attempts < maxAttempts(variant) /\ requests = attempts

-----------------------------------------------------------------------------
(* C4: every accepted route has a total distance d with
   minDistanceKm <= d <= maxDistanceKm, both bounds inclusive. *)
C4_DistanceBand ==
  \A i \in 1..Len(routes) :
    /\ routes[i].distance # NaN
    /\ minDistanceKm <= routes[i].distance
    /\ routes[i].distance <= maxDistanceKm

-----------------------------------------------------------------------------
(* C5: in the new variant no accepted route has a length-based overlap ratio
   greater than 0.7 with a route accepted before it. *)
C5_NoOverlapAbove70 ==
  variant = "new" =>
    \A j \in 1..Len(routes) : \A i \in 1..(j - 1) :
      (routes[i].points \in Polylines /\ routes[j].points \in Polylines)
        => ~RatioGt(calculateRouteOverlap(routes[i].points, routes[j].points), 7, 10)

\* two routes accepted although they share a segment (ratio 1/3)
C5_Witness ==
  /\ variant = "new" /\ Len(routes) = 2
  /\ routes[1].points = "A" /\ routes[2].points = "D"

-----------------------------------------------------------------------------
(* C6: a provider that returns the same polyline on every call gets at most
   one route accepted, whatever the polyline. *)
C6_SamePolylineOnce == provider.mode = "same" => Len(routes) <= 1

-----------------------------------------------------------------------------
(* C7: no route with a missing or empty overview polyline is ever appended. *)
C7_NoEmptyPath ==
  \A i \in 1..Len(routes) : routes[i].points \notin {NoOverview, NoPoints, ""}

-----------------------------------------------------------------------------
(* C8: the accepted list is append-only and in attempt order, and its i-th
   route is named "Route i". *)
C8_AppendOnlyNamed ==
  /\ [](\A i \in 1..Len(routes) : routes[i].name = "Route " \o ToString(i))
  /\ [](\A j \in 1..Len(acceptedAt) : \A i \in 1..(j - 1) : acceptedAt[i] < acceptedAt[j])
  /\ [][/\ Len(routes') >= Len(routes)
         /\ Len(routes') <= Len(routes) + 1
         /\ SubSeq(routes', 1, Len(routes)) = routes]_vars

C8_Witness ==
  /\ Len(routes) = 2
  /\ routes[1].name = "Route 1" /\ routes[2].name = "Route 2"
  /\ acceptedAt[2] > acceptedAt[1] + 1

-----------------------------------------------------------------------------
(* C9: an attempt that fails (fetch throws, the body is not JSON, the response
   lacks expected fields) consumes that one attempt, leaves the accepted list
   and the duplicate-key set unchanged, and the run continues. *)
C9_LacksFields(r) ==
  /\ r.kind = "json" /\ r.status = "OK"
  /\ \/ r.shape # "full"
     \/ r.poly \in {NoOverview, NoPoints}
     \/ r.km = NaN

C9_Failed(r) == r.kind \in {"throw", "badjson"} \/ C9_LacksFields(r)

\* C9: validating a failed attempt changes neither routes nor uniqueRoutes nor
\* attempts and leads back to the while test
C9_FailureIsContained ==
  [][(pc = "validate" /\ C9_Failed(resp))
       => /\ routes' = routes
          /\ uniqueRoutes' = uniqueRoutes
          /\ attempts' = attempts
          /\ pc' = "loop"]_vars

-----------------------------------------------------------------------------
(* C10: in the new variant, when every response is OK, in band, and distinct
   from and not overlapping the earlier ones, a run with targetCount <=
   maxAttempts returns exactly targetCount routes "Route 1" .. "Route
   targetCount" after exactly targetCount attempts. *)
C10_AllAccepted ==
  (/\ variant = "new" /\ provider.mode = "distinct"
   /\ numRoutes <= maxAttempts(variant) /\ pc = "done")
    => /\ Len(routes) = numRoutes
       /\ attempts = numRoutes
       /\ requests = numRoutes
       /\ \A i \in 1..numRoutes : routes[i].name = "Route " \o ToString(i)

\* a run in which both band limits occurred as distances
C10_Witness ==
  /\ variant = "new" /\ provider.mode = "distinct" /\ pc = "done"
  /\ numRoutes = MaxTarget /\ Len(routes) = MaxTarget
  /\ routes[1].distance = minDistanceKm /\ routes[2].distance = maxDistanceKm

-----------------------------------------------------------------------------
(* C11: every call of the waypoint sampler terminates, having drawn at most
   count * 5 points, whatever the center, the radius (0 included) and the
   points the generator yields (the same point over and over included); at
   the ceiling it returns the waypoints it has. *)
C11_DrawCeiling ==
  draws <= numWaypoints * 5

(* C12: in a returned waypoint list every waypoint is at least radius * 0.1
   from the center and from every other waypoint, and no two waypoints have
   the same rounded-coordinate key. *)
C12_MinSeparation ==
  spc = "returned" =>
    /\ \A i \in 1..Len(waypoints) :
         100 * calculateDistanceSquared(waypoints[i], startLocation) >= radius * radius
    /\ \A i, j \in 1..Len(waypoints) :
         i < j => /\ 100 * calculateDistanceSquared(waypoints[i], waypoints[j])
                       >= radius * radius
                  /\ waypoints[i] # waypoints[j]

(* C13: the returned list is ordered by non-decreasing bearing
   atan2(dLng, dLat) from the center and is a permutation of the accepted
   points. *)
C13_SortedPermutation ==
  [][ (spc = "sampling" /\ spc' = "returned") =>
        /\ \A i, j \in 1..Len(waypoints') :
             i < j => ~calculateAngleLess(startLocation, waypoints'[j], waypoints'[i])
        /\ Len(waypoints') = Len(waypoints)
        /\ \A i \in 1..Len(waypoints) :
             Cardinality({ k \in 1..Len(waypoints) : waypoints[k] = waypoints[i] })
               = Cardinality({ k \in 1..Len(waypoints') : waypoints'[k] = waypoints[i] })
    ]_vars

\* a returned list of at least three waypoints of strictly increasing bearing
C13_Witness ==
  /\ spc = "returned"
  /\ Len(waypoints) >= 3
  /\ \A i \in 1..(Len(waypoints) - 1) :
       calculateAngleLess(startLocation, waypoints[i], waypoints[i + 1])

(* C14: every point the random-point generator produces has a latitude in
   [-90, 90] and a longitude in [-180, 180], also for a center within one
   radius of the +-180 meridian. *)
C14_PointInRange ==
  point # NoDraw =>
    /\ -MaxLat <= point[1] /\ point[1] <= MaxLat
    /\ -MaxLng <= point[2] /\ point[2] <= MaxLng

(* C15: the length-based overlap ratio of a path with itself is 1, for every
   path, those with fewer than two points or with segments of length zero
   only included. *)
C15_SelfOverlapIsOne ==
  (overlapRatio # NoRatio /\ pathA = pathB) =>
    (overlapRatio[2] # 0 /\ overlapRatio[1] = overlapRatio[2])

(* C16: the length-based overlap ratio of any two decoded paths is a number
   in [0, 1]: the matched length, to which a segment of the first path adds
   at most once, never exceeds the larger path length, and the result is
   defined when both lengths are zero. *)
C16_RatioInUnitInterval ==
  overlapRatio # NoRatio =>
    /\ ~(overlapRatio[1] = 0 /\ overlapRatio[2] = 0)
    /\ 0 <= overlapRatio[1]
    /\ overlapRatio[1] <= overlapRatio[2]

\* what does hold of C16: a defined ratio lies in [0, 1]
C16_DefinedRatioInUnitInterval ==
  (overlapRatio # NoRatio /\ overlapRatio[2] # 0) =>
    (0 <= overlapRatio[1] /\ overlapRatio[1] <= overlapRatio[2])

(* C17: the saved-routes store appends or updates by id: after any sequence
   of saveRoute, deleteRoute and clearSavedRoutes calls it holds at most one
   record per id; saving an id that is present replaces that record in
   place and saving a new id appends the record at the end. *)
C17_OneRecordPerId ==
  \A i, j \in 1..Len(store.routes) : i < j => store.routes[i].id # store.routes[j].id

(* C18: when the caller has abandoned a generation run (the Home screen was
   left or unmounted while the call was awaited), the result that arrives
   later is discarded: no navigation, no toast, no state update. *)
C18_LateResultDiscarded ==
  [][ (hpc = "awaiting" /\ hpc' # "awaiting" /\ screen # "focused") =>
        (navigated' = navigated /\ toast' = toast /\ isGenerating' = isGenerating)
    ]_vars

(* C19: within one generation run at most one provider request is
   outstanding at any time: the next attempt is entered, sampled and
   requested only after the previous attempt's response has arrived or
   failed and has been validated. *)
C19_OneRequestAtATime ==
  [][ /\ outstanding' <= 1
      /\ (attempts' # attempts \/ requests' # requests) =>
            (outstanding = 0 /\ resp = NoResp)
    ]_vars

\* the second request of a run is outstanding
C19_Witness ==
  /\ outstanding = 1
  /\ requests = 2
  /\ attempts = 2

(* C20: a Home run that ends with no route shows the "No valid routes found"
   error and does not navigate; a run that ends with at least one route
   navigates to the results screen with exactly the returned routes and
   shows no error; no other generation failure is shown. *)
C20_ResultHandling ==
  [][ (hpc = "awaiting" /\ hpc' = "idle") =>
        IF generated' = << >>
          THEN toast' = "No valid routes found. Try adjusting the radius."
               /\ ~navigated'.pushed
          ELSE navigated'.pushed /\ navigated'.routes = generated' /\ toast' = ""
    ]_vars

\* what does hold of C20: the routes are pushed in order and in full, and a
\* route whose distance is a number is pushed as it was returned
C20_ResultHandlingUpToNaN ==
  [][ (hpc = "awaiting" /\ hpc' = "idle") =>
        IF generated' = << >>
          THEN toast' = "No valid routes found. Try adjusting the radius."
               /\ ~navigated'.pushed
          ELSE /\ navigated'.pushed
               /\ toast' = ""
               /\ Len(navigated'.routes) = Len(generated')
               /\ \A i \in 1..Len(generated') :
                    /\ navigated'.routes[i].name = generated'[i].name
                    /\ navigated'.routes[i].points = generated'[i].points
                    /\ generated'[i].distance # NaN =>
                         navigated'.routes[i].distance = generated'[i].distance
    ]_vars

\* the summed latitude extent of the segments of path p whose index is in S
RECURSIVE C21_LengthOver(_, _)
C21_LengthOver(p, S) ==
  IF S = {} THEN 0
  ELSE LET i == CHOOSE k \in S : TRUE
       IN  (IF p[i + 1][1] >= p[i][1] THEN p[i + 1][1] - p[i][1]
                                     ELSE p[i][1] - p[i + 1][1])
           + C21_LengthOver(p, S \ {i})

(* C21: segment matching is direction-sensitive: a segment of pathA matches
   a segment of pathB only when start is within 1e-4 degree of start and end
   within 1e-4 degree of end, in both coordinates; a pair whose endpoints
   agree in reversed order only adds nothing to the count-based or to the
   length-based overlap. *)
C21_DirectionSensitive ==
  overlapRatio # NoRatio =>
    LET Near(x, y) == x - y < 10 /\ y - x < 10
        Forward(i, j) == /\ Near(pathA[i][1], pathB[j][1])
                         /\ Near(pathA[i][2], pathB[j][2])
                         /\ Near(pathA[i + 1][1], pathB[j + 1][1])
                         /\ Near(pathA[i + 1][2], pathB[j + 1][2])
        matched == { i \in 1..(Len(pathA) - 1) :
                       \E j \in 1..(Len(pathB) - 1) : Forward(i, j) }
    IN  /\ overlapCount[1] = Cardinality(matched)
        /\ overlapRatio[1] = C21_LengthOver(pathA, matched)

\* a segment longer than the tolerance compared with its own reversal
C21_Witness ==
  /\ overlapRatio # NoRatio
  /\ Len(pathA) = 2
  /\ pathB = << pathA[2], pathA[1] >>
  /\ pathA[2][1] - pathA[1][1] >= 10
  /\ overlapRatio[1] = 0
  /\ overlapCount[1] = 0

(* C22: deleteRoute(id) removes exactly the records with that id: when it
   resolves every record with another id is still present, unchanged and in
   the same relative order, also when the read of the stored collection
   inside deleteRoute fails; deleting an absent id leaves the collection
   unchanged. *)
C22_DeleteKeepsOthers ==
  [][ (lastCall'.op = "delete" /\ lastCall'.outcome = "ok") =>
        store'.routes =
          SelectSeq(store.routes, LAMBDA route : route.id # lastCall'.id)
    ]_vars

(* C24: saveRoute (the updating module) called with a route whose id is
   missing or empty rejects with an error and performs no write: the stored
   collection is exactly what it was before the call. *)
C24_EmptyIdRejected ==
  [][ (storageVariant = "update" /\ lastCall'.op = "save" /\ lastCall'.id = "") =>
        (lastCall'.outcome = "throws" /\ store' = store)
    ]_vars

\* a save without id was rejected while records were stored
C24_Witness ==
  /\ storageVariant = "update"
  /\ lastCall = [op |-> "save", id |-> "", outcome |-> "throws"]
  /\ Len(store.routes) = 2

(* C26: a successful saveRoute never removes or alters a record with another
   id, also when the read of the existing collection fails (getSavedRoutes
   swallows the error and returns the empty list). *)
C26_SaveKeepsOthers ==
  [][ (lastCall'.op = "save" /\ lastCall'.outcome = "ok") =>
        SelectSeq(store'.routes, LAMBDA route : route.id # lastCall'.id) =
          SelectSeq(store.routes, LAMBDA route : route.id # lastCall'.id)
    ]_vars

(* C27: the length-based overlap is symmetric: calculateRouteOverlap(A, B)
   equals calculateRouteOverlap(B, A) for all paths A and B, so the
   acceptance gate decides the same with the arguments swapped. *)
C27_OverlapSymmetric ==
  overlapRatio # NoRatio => overlapRatio = RouteOverlapOfPoints(pathB, pathA)

\* the gate's half of C27: overlap > 0.7 is decided alike both ways round
C27_GateSymmetric ==
  overlapRatio # NoRatio =>
    (RatioGt(overlapRatio, 7, 10) <=> RatioGt(RouteOverlapOfPoints(pathB, pathA), 7, 10))

(* C29: on the Home screen isGenerating is true exactly while a generation
   run is awaited: it is set before generateRoutes is called and reset to
   false on every way the handler ends (routes found, zero routes,
   exception); when the location is missing or the radius is not a number
   greater than 0, generateRoutes is not called and isGenerating stays
   false. *)
C29_IsGeneratingTracksRun ==
  /\ [](screen # "unmounted" => (isGenerating <=> hpc = "awaiting"))
  /\ [][ (hpc = "idle" /\ hpc' = "awaiting") =>
           (location = "set" /\ radiusText \in {"10", "5km"} /\ isGenerating') ]_vars

\* a run that found no route has ended on the mounted screen
C29_Witness ==
  /\ hpc = "idle"
  /\ screen = "focused"
  /\ toast = NoValidRoutesText
  /\ generated = << >>
  /\ isGenerating = FALSE

(* C23: two invocations of generateRoutes whose awaits interleave share no
   mutable state: each has its own accepted list, attempt counter and
   duplicate-key set, and what one returns is what it would have returned
   had the other not run. *)
C23_RunsIndependent ==
  \A k \in {1, 2} :
    /\ locals[k] = solo[k]
    /\ runs[k].pc = "done" =>
         /\ runs[k].result = solo[k].routes
         /\ (Len(solo[k].routes) >= numRoutes \/ solo[k].attempts >= maxAttempts(variant))

\* both invocations await a fetch, each holding an accepted route the other
\* does not hold
C23_Witness ==
  /\ runs[1].pc = "await"
  /\ runs[2].pc = "await"
  /\ Len(locals[1].routes) = 1
  /\ Len(locals[2].routes) = 1
  /\ locals[1].routes[1].points # locals[2].routes[1].points

(* C25: when two saveRoute calls for different ids overlap in time and both
   resolve, the store holds both records: no interleaving of their reads
   and writes loses a save. *)
C25_NoLostSave ==
  (\A c \in {1, 2} : callers[c].pc = "resolved" /\ ~callers[c].readFailed) =>
    \A c \in {1, 2} :
      \E i \in 1..Len(store.routes) : store.routes[i].id = callers[c].route.id

-----------------------------------------------------------------------------
(* The ride-tracking screen: Start, Pause, Resume, Stop, the timer, the
   location subscription and its callback *)

\* averageSpeed is followed by the kind of number it is
SpeedClasses == {"zero", "finite", "infinite", "nan"}
\* the distance between the last point and the new one
DistanceClasses == {"zero", "positive"}

\* (prev + newDistance) / (elapsedTime / 3600) in floating point: x / 0 is
\* Infinity for x > 0 and NaN for x = 0; NaN and Infinity propagate
SpeedAfter(prev, newDistance, divisor) ==
  LET sum == IF prev = "zero" /\ newDistance = "zero" THEN "zero"
             ELSE IF prev \in {"zero", "finite"} THEN "finite"
             ELSE prev
  IN  IF divisor > 0 THEN sum
      ELSE IF sum = "zero" THEN "nan"
      ELSE IF sum = "finite" THEN "infinite"
      ELSE sum

\* JSON.stringify(rides): Infinity and NaN are written as null
StoredSpeed(speed) == IF speed \in {"infinite", "nan"} THEN "null" ELSE speed

\* the locationWatcher the unmount cleanup reads: the effect has no
\* dependencies, so its cleanup closes over the value of the first render
CleanupWatcher == NoSubscription

\* a suspended handler call: which handler, the await it stands at, and the
\* elapsedTime of the render whose closure it is
Handler(kind, at, captured) == [kind |-> kind, at |-> at, captured |-> captured]

RemoveAt(seq, i) == [j \in 1..(Len(seq) - 1) |-> IF j < i THEN seq[j] ELSE seq[j + 1]]

\* subscription.remove()
Removed(subs, id) == { s \in subs : s.id # id }

nonRideVars == <<genVars, samplerVars, overlapVars, storageVars, homeVars, twoVars,
                 callerVars>>

RideInit ==
  /\ rideMounted = TRUE
  /\ isRiding = FALSE
  /\ isPaused = FALSE
  /\ elapsedTime = 0
  /\ averageSpeed = "zero"
  /\ locationWatcher = NoSubscription
  /\ subscriptions = {}
  /\ nextSubscription = 0
  /\ handlers = << >>
  /\ lastUpdate = NoUpdate
  /\ savedRide = NoRide
  /\ GenIdle
  /\ SamplerIdle
  /\ OverlapIdle
  /\ StorageIdle
  /\ HomeIdle
  /\ TwoIdle
  /\ CallersIdle

\* Start Ride is pressed (shown while !isRiding): handleStartRide runs up to
\* its first await
PressStart ==
  /\ rideMounted
  /\ ~isRiding
  /\ Len(handlers) < MaxHandlers
  /\ handlers' = Append(handlers, Handler("start", "locating", elapsedTime))
  /\ UNCHANGED <<rideMounted, isRiding, isPaused, elapsedTime, averageSpeed,
                 locationWatcher, subscriptions, nextSubscription, lastUpdate,
                 savedRide, nonRideVars>>

\* the permission request and getCurrentPositionAsync settle: permission
\* denied or an exception end the call; otherwise the ride state is reset,
\* isRiding is set and watchPositionAsync is called and awaited.  React
\* drops the updates of an unmounted screen.
StartLocated ==
  \E i \in 1..Len(handlers) :
    /\ handlers[i].at = "locating"
    /\ \/ /\ handlers' = RemoveAt(handlers, i)
          /\ UNCHANGED <<isRiding, isPaused, elapsedTime, averageSpeed>>
       \/ /\ handlers' = [handlers EXCEPT ![i].at = "watch"]
          /\ IF rideMounted
               THEN /\ elapsedTime' = 0
                    /\ averageSpeed' = "zero"
                    /\ isRiding' = TRUE
                    /\ isPaused' = FALSE
               ELSE UNCHANGED <<isRiding, isPaused, elapsedTime, averageSpeed>>
    /\ UNCHANGED <<rideMounted, locationWatcher, subscriptions, nextSubscription,
                   lastUpdate, savedRide, nonRideVars>>

\* Resume is pressed (shown while isRiding && isPaused): handleResumeRide
\* calls watchPositionAsync and awaits it
PressResume ==
  /\ rideMounted
  /\ isRiding
  /\ isPaused
  /\ Len(handlers) < MaxHandlers
  /\ handlers' = Append(handlers, Handler("resume", "watch", elapsedTime))
  /\ UNCHANGED <<rideMounted, isRiding, isPaused, elapsedTime, averageSpeed,
                 locationWatcher, subscriptions, nextSubscription, lastUpdate,
                 savedRide, nonRideVars>>

\* an awaited watchPositionAsync settles: a rejection ends the call in its
\* catch; otherwise the subscription exists, setLocationWatcher(subscription)
\* and, in handleResumeRide, setIsPaused(false)
WatchSettles ==
  \E i \in 1..Len(handlers) :
    /\ handlers[i].at = "watch"
    /\ handlers' = RemoveAt(handlers, i)
    /\ \/ UNCHANGED <<subscriptions, nextSubscription, locationWatcher, isPaused>>
       \/ /\ nextSubscription < MaxSubscriptions
          /\ nextSubscription' = nextSubscription + 1
          /\ subscriptions' = subscriptions \cup
               { [id |-> nextSubscription + 1, captured |-> handlers[i].captured] }
          /\ locationWatcher' = IF rideMounted THEN nextSubscription + 1
                                               ELSE locationWatcher
          /\ isPaused' = IF rideMounted /\ handlers[i].kind = "resume" THEN FALSE
                                                                      ELSE isPaused
    /\ UNCHANGED <<rideMounted, isRiding, elapsedTime, averageSpeed, lastUpdate,
                   savedRide, nonRideVars>>

\* Pause is pressed (shown while isRiding && !isPaused)
PressPause ==
  /\ rideMounted
  /\ isRiding
  /\ ~isPaused
  /\ subscriptions' = Removed(subscriptions, locationWatcher)
  /\ locationWatcher' = NoSubscription
  /\ isPaused' = TRUE
  /\ UNCHANGED <<rideMounted, isRiding, elapsedTime, averageSpeed, nextSubscription,
                 handlers, lastUpdate, savedRide, nonRideVars>>

\* Stop is pressed (shown while isRiding && !isPaused): the watcher is
\* removed, the ride is built from the state of this render and written to
\* the 'rides' item; router.back() leaves the screen, whose unmount cleanup
\* removes CleanupWatcher; a failing getItem / setItem ends in the catch
PressStop ==
  /\ rideMounted
  /\ isRiding
  /\ ~isPaused
  /\ locationWatcher' = NoSubscription
  /\ isRiding' = FALSE
  /\ isPaused' = FALSE
  /\ \/ /\ savedRide' = StoredSpeed(averageSpeed)
        /\ rideMounted' = FALSE
        /\ subscriptions' = Removed(Removed(subscriptions, locationWatcher), CleanupWatcher)
     \/ /\ subscriptions' = Removed(subscriptions, locationWatcher)
        /\ UNCHANGED <<savedRide, rideMounted>>
  /\ UNCHANGED <<elapsedTime, averageSpeed, nextSubscription, handlers, lastUpdate,
                 nonRideVars>>

\* the screen is left by the back gesture: the unmount cleanup runs
Unmount ==
  /\ rideMounted
  /\ rideMounted' = FALSE
  /\ subscriptions' = Removed(subscriptions, CleanupWatcher)
  /\ UNCHANGED <<isRiding, isPaused, elapsedTime, averageSpeed, locationWatcher,
                 nextSubscription, handlers, lastUpdate, savedRide, nonRideVars>>

\* the interval of the timer effect fires: setElapsedTime(prev => prev + 1)
Tick ==
  /\ rideMounted
  /\ isRiding
  /\ ~isPaused
  /\ elapsedTime < MaxElapsed
  /\ elapsedTime' = elapsedTime + 1
  /\ UNCHANGED <<rideMounted, isRiding, isPaused, averageSpeed, locationWatcher,
                 subscriptions, nextSubscription, handlers, lastUpdate, savedRide,
                 nonRideVars>>

\* a subscription delivers a location to its callback, which divides by the
\* elapsedTime of the closure it was created in
LocationUpdate ==
  /\ rideMounted
  /\ \E s \in subscriptions, newDistance \in DistanceClasses :
       /\ averageSpeed' = SpeedAfter(averageSpeed, newDistance, s.captured)
       /\ lastUpdate' = [happened |-> TRUE, divisor |-> s.captured, elapsed |-> elapsedTime]
  /\ UNCHANGED <<rideMounted, isRiding, isPaused, elapsedTime, locationWatcher,
                 subscriptions, nextSubscription, handlers, savedRide, nonRideVars>>

RideNext ==
  \/ PressStart
  \/ StartLocated
  \/ PressResume
  \/ WatchSettles
  \/ PressPause
  \/ PressStop
  \/ Unmount
  \/ Tick
  \/ LocationUpdate

RideSpec == RideInit /\ [][RideNext]_vars

(* C28: on the ride-tracking screen the location subscription is active only
   while a ride is in progress and not paused; after Stop, after Pause and
   after unmount every subscription created has been removed, under any
   interleaving of Start / Pause / Resume / Stop / unmount with the
   completion of watchPositionAsync, and at most one subscription is active
   at a time. *)
C28_SubscriptionOnlyWhileRiding ==
  /\ Cardinality(subscriptions) <= 1
  /\ subscriptions # {} => (rideMounted /\ isRiding /\ ~isPaused)

(* C30: each location update computes the average speed dividing by the
   elapsed time as of that update (the current value of the timer), never
   by the value captured when the ride was started or resumed; the stored
   average speed of a finished ride is finite. *)
C30_SpeedUsesCurrentElapsed ==
  /\ lastUpdate.happened => lastUpdate.divisor = lastUpdate.elapsed
  /\ savedRide \in {NoRide, "zero", "finite"}

\* the second half of C30 alone: what handleStopRide stored is a finite number
C30_StoredSpeedFinite == savedRide \in {NoRide, "zero", "finite"}

\* the first half of C28 alone: at most one subscription at a time
C28_AtMostOneSubscription == Cardinality(subscriptions) <= 1

====
